---- MODULE Spec2Model ----
(***************************************************************************)
(* A model of the zclwrite token generator tree (TokenGen, Token, Tokens,  *)
(* TokenSeq, EachToken, Tokens(), WriteTo) and of the transform package's  *)
(* Chain.                                                                  *)
(*                                                                         *)
(* Go pointers are modelled by a heap: a *Token is an index into heap, and *)
(* a token generator is a record naming its dynamic type.  EachToken is    *)
(* run as the code runs it, one call frame per generator on a stack; the   *)
(* io.Writer handed to WriteTo answers each Write with a full or a partial *)
(* count, with or without an error.  A []Transformer is a slice header     *)
(* over a backing array, so that Chain's conversion shares the array.      *)
(***************************************************************************)
EXTENDS Integers, Sequences, FiniteSets, TLC

VARIABLES
    tree,           \* the root *TokenSeq the operations are called on
    heap,           \* the Token each *Token points to
    pc,             \* "idle", "walk" (inside EachToken), "spaces" (inside the callback's loop)
    op,             \* the operation running: "none", "Tokens", "WriteTo"
    stack,          \* the EachToken call frames, innermost last
    cur,            \* the *Token the callback was called with
    spacesBefore,   \* the callback's loop variable
    tokens,         \* the list Tokens() is building
    n,              \* WriteTo's n
    err,            \* WriteTo's err
    sink,           \* the io.Writer of the running (or last) WriteTo
    result,         \* what the last call returned
    prior,          \* "failed" once some WriteTo has returned an error
    given,          \* the tree and the heap as they were handed over
    arrays,         \* the backing arrays of the []Transformer slices
    list,           \* the caller's slice, the argument of Chain
    chain,          \* the chain that Chain returned
    ctorList,       \* the contents of list when Chain was called
    cpc,            \* "new", "idle", "loop" (inside chain.TransformBody), "returned"
    idx,            \* the position of TransformBody's range loop
    body,           \* TransformBody's body
    applied,        \* the stages the running (or last) TransformBody has called
    callList,       \* the contents of list when TransformBody was called
    input,          \* the body TransformBody was called with
    cresult         \* the body the last TransformBody returned

tokVars == <<tree, heap, pc, op, stack, cur, spacesBefore, tokens, n, err, sink, result, prior, given>>

chainVars == <<arrays, list, chain, ctorList, cpc, idx, body, applied, callList, input, cresult>>

vars == <<tokVars, chainVars>>

----------------------------------------------------------------------------
\* Bounds of the model.

\* Generators (and tokens in flat lists) in a tree of the shape family.
MaxSize == 4

\* Tokens in a tree of the content family.
MaxFlat == 2

\* Transformers in the list handed to Chain.
MaxChain == 3

----------------------------------------------------------------------------
\* Values.

Nil == "nil"

\* len(spaces): make([]byte, 40)
ScratchLen == 40

\* ' '
SpaceByte == 32

Token(ty, bytes, sb) == [Type |-> ty, Bytes |-> bytes, SpacesBefore |-> sb]

\* The tokens of the model, by pointer.  SpacesBefore is taken on both sides
\* of the scratch buffer's length and at multiples of it; one token has an
\* empty payload.
TokenHeap ==
    << Token("TokenIdent",   <<97>>,      0),
       Token("TokenEqual",   <<61, 61>>,  0),
       Token("TokenIdent",   <<98>>,      39),
       Token("TokenNil",     << >>,       40),
       Token("TokenNumber",  <<49, 50>>,  41),
       Token("TokenIdent",   <<99>>,      80),
       Token("TokenNewline", <<10>>,      120) >>

Ptrs == DOMAIN TokenHeap

\* The pointers the shape family uses: two tokens with no spaces.
ShapePtrs == {1, 2}

\* The pointers the content family uses: one token for each SpacesBefore.
ContentPtrs == Ptrs \ {2}

\* A TokenGen value: its dynamic type and that type's contents.
MkToken(p) == [kind |-> "Token", tok |-> p, toks |-> << >>, gens |-> << >>]

MkTokens(ps) == [kind |-> "Tokens", tok |-> 0, toks |-> ps, gens |-> << >>]

MkTokenSeq(gs) == [kind |-> "TokenSeq", tok |-> 0, toks |-> << >>, gens |-> gs]

\* (*TokenSeq)(nil)
NilTokenSeq == [kind |-> "NilTokenSeq", tok |-> 0, toks |-> << >>, gens |-> << >>]

\* var TokenSeqEmpty = TokenSeq([]TokenGen(nil))
TokenSeqEmpty == MkTokenSeq(<< >>)

RECURSIVE GenSeqs(_, _)
RECURSIVE Gens(_, _)
\* The lists of generators over the pointers P of total size m.
GenSeqs(P, m) ==
    IF m = 0 THEN {<< >>}
    ELSE UNION { { <<g>> \o rest : g \in Gens(P, k), rest \in GenSeqs(P, m - k) } : k \in 1..m }

\* The generators over the pointers P of size s: a generator counts one, and
\* so does each token of a flat list.
Gens(P, s) ==
    (IF s = 1 THEN {NilTokenSeq} \cup { MkToken(p) : p \in P } ELSE {})
    \cup { MkTokens(ps) : ps \in [1..(s - 1) -> P] }
    \cup { MkTokenSeq(gs) : gs \in GenSeqs(P, s - 1) }

\* Trees of every shape over two tokens.
ShapeTrees ==
    {NilTokenSeq}
    \cup UNION { { MkTokenSeq(gs) : gs \in GenSeqs(ShapePtrs, m) } : m \in 0..(MaxSize - 1) }

\* Flat trees over every SpacesBefore.
ContentTrees ==
    UNION { { MkTokenSeq([i \in 1..k |-> MkToken(f[i])]) : f \in [1..k -> ContentPtrs] } : k \in 0..MaxFlat }

Trees == ShapeTrees \cup ContentTrees

----------------------------------------------------------------------------
\* The sink: an io.Writer.  It keeps every slice it was handed (log), the
\* bytes it accepted (data) and the failures it reported (fails).

NewSink == [log |-> << >>, data |-> << >>, fails |-> << >>, short |-> FALSE]

\* What a Write of p may return, a count and an error: all of p taken; a
\* failure after half of p; a failure with nothing taken; and half of p
\* taken with no error, which io.Writer forbids and WriteTo does not check.
WriteOutcomes(p) ==
    { [n |-> Len(p),        err |-> Nil],
      [n |-> Len(p) \div 2, err |-> "ErrShort"],
      [n |-> 0,             err |-> "ErrClosed"],
      [n |-> Len(p) \div 2, err |-> Nil] }

\* The sink after wr.Write(p) returned out.
SinkWrite(s, p, out) ==
    [ log   |-> Append(s.log, p),
      data  |-> s.data \o SubSeq(p, 1, out.n),
      fails |-> IF out.err # Nil
                THEN Append(s.fails, [at |-> Len(s.log) + 1, err |-> out.err])
                ELSE s.fails,
      short |-> s.short \/ (out.err = Nil /\ out.n < Len(p)) ]

----------------------------------------------------------------------------
\* EachToken.

\* A call of gen.EachToken(cb) that has not looked at its contents yet.
Frame(g) == [gen |-> g, i |-> 1]

Top == stack[Len(stack)]

Pop(s) == SubSeq(s, 1, Len(s) - 1)

\* The frame's loop has moved on by one.
Advance(s) == [s EXCEPT ![Len(s)].i = @ + 1]

\* A range loop that takes an absent child for the end of the list.
SeqHasNextStopAtEmpty(f) ==
    /\ f.gen.kind = "TokenSeq"
    /\ f.i <= Len(f.gen.gens)
    /\ f.gen.gens[f.i] \notin {NilTokenSeq, TokenSeqEmpty}

\* for _, gen := range *ts: another child is left.
SeqHasNext(f) == f.gen.kind = "TokenSeq" /\ f.i <= Len(f.gen.gens)

\* A loop over a flat list that stops one token early.
TokHasNextShort(f) ==
    \/ f.gen.kind = "Token" /\ f.i = 1
    \/ f.gen.kind = "Tokens" /\ f.i < Len(f.gen.toks)

\* (*Token).EachToken, once; Tokens.EachToken, for _, t := range ts.
TokHasNext(f) ==
    \/ f.gen.kind = "Token" /\ f.i = 1
    \/ f.gen.kind = "Tokens" /\ f.i <= Len(f.gen.toks)

\* The token the frame hands to the callback.
TokOf(f) == IF f.gen.kind = "Token" THEN f.gen.tok ELSE f.gen.toks[f.i]

\* tokens = append(tokens, token)
AppendTok(ts, t) == Append(ts, t)

RECURSIVE EachTokenRun(_, _)
\* EachToken run to its end from the call frames s, with a callback that
\* appends to out.
EachTokenRun(s, out) ==
    IF s = << >> THEN out
    ELSE LET f == s[Len(s)] IN
         IF SeqHasNext(f)
         THEN EachTokenRun(Append(Advance(s), Frame(f.gen.gens[f.i])), out)
         ELSE IF TokHasNext(f)
              THEN EachTokenRun(Advance(s), AppendTok(out, TokOf(f)))
              ELSE EachTokenRun(Pop(s), out)

\* The tokens g.EachToken delivers, in the order it delivers them.
EachTokenOf(g) == EachTokenRun(<<Frame(g)>>, << >>)

----------------------------------------------------------------------------
\* WriteTo.

\* spaces := make([]byte, 40), every byte ' '
Spaces == [i \in 1..ScratchLen |-> SpaceByte]

\* A callback that does not look at err.
SkipTokenNever(e) == FALSE

\* if err != nil { return }, on entry to the callback
SkipToken(e) == e # Nil

\* A loop that writes whole buffers only.
LoopRunsWhole(sb) == sb >= Len(Spaces)

\* spacesBefore > 0
LoopRuns(sb) == sb > 0

\* thisChunk := spacesBefore; if thisChunk > len(spaces) { thisChunk = len(spaces) }
ThisChunk(sb) == IF sb > Len(Spaces) THEN Len(Spaces) ELSE sb

\* A slice of spacesBefore spaces, allocated for the token.
SpaceChunkNaive(sb) == [i \in 1..sb |-> SpaceByte]

\* spaces[:thisChunk]
SpaceChunk(sb) == SubSeq(Spaces, 1, ThisChunk(sb))

\* A loop that steps over every other buffer.
LoopDecrementTwice(sb) == sb - 2 * Len(Spaces)

\* spacesBefore -= len(spaces)
LoopDecrement(sb) == sb - Len(Spaces)

\* n = thisN
AddCountLast(total, thisN) == thisN

\* n += thisN
AddCount(total, thisN) == total + thisN

NoResult == [op |-> "none", tokens |-> << >>, n |-> 0, err |-> Nil]

----------------------------------------------------------------------------
\* The transform package.

\* A slice header: a backing array and a length.  NoSlice is no chain yet.
NoSlice == [arr |-> 0, len |-> 0]

\* A zcl.Body, as far as a transformer can tell: the markers appended to it,
\* and whether it is an error body, which raises its diagnostics when read.
Body(ms, p) == [markers |-> ms, poisoned |-> p]

NoBody == Body(<< >>, FALSE)

InputBodies == { Body(<< >>, FALSE), Body(<<"X">>, FALSE), Body(<< >>, TRUE) }

\* A transformer that appends a marker to the body it is given.
AppendMarker(m, in) == Body(Append(in.markers, m), in.poisoned)

\* A transformer that fails: it returns an error body.
ErrorBody(in) == Body(<< >>, TRUE)

\* The transformers of the model, by name.
Transformers == {"A", "B", "Err"}

\* func (f TransformerFunc) TransformBody(in zcl.Body) zcl.Body { return f(in) }
TransformerFunc(f, in) ==
    CASE f = "A"   -> AppendMarker("A", in)
      [] f = "B"   -> AppendMarker("B", in)
      [] f = "Err" -> ErrorBody(in)

\* The lists a caller hands to Chain.
Lists == UNION { [1..k -> Transformers] : k \in 0..MaxChain }

\* func Chain(c []Transformer) Transformer { return chain(c) }: a conversion,
\* the chain is the caller's slice header.
Chain(c) == c

\* The elements a slice header gives access to.
Elems(sl) == SubSeq(arrays[sl.arr], 1, sl.len)

\* for _, t := range c: another element is left.
RangeHasNext(c, i) == i <= c.len

\* A loop that walks the list from its end.
RangeElemReversed(c, i) == arrays[c.arr][c.len - i + 1]

\* for _, t := range c: the element the loop is at.
RangeElem(c, i) == arrays[c.arr][i]

----------------------------------------------------------------------------
\* No chain is in use.
ChainIdle ==
    /\ arrays = << << >> >>
    /\ list = [arr |-> 1, len |-> 0]
    /\ chain = NoSlice
    /\ ctorList = << >>
    /\ cpc = "new"
    /\ idx = 0
    /\ body = NoBody
    /\ applied = << >>
    /\ callList = << >>
    /\ input = NoBody
    /\ cresult = NoBody

Init ==
    /\ ChainIdle
    /\ tree \in Trees
    /\ given = [tree |-> tree, heap |-> TokenHeap]
    /\ heap = TokenHeap
    /\ pc = "idle"
    /\ op = "none"
    /\ stack = << >>
    /\ cur = 0
    /\ spacesBefore = 0
    /\ tokens = << >>
    /\ n = 0
    /\ err = Nil
    /\ sink = NewSink
    /\ result = NoResult
    /\ prior = "none"

\* ts.Tokens() is called: var tokens Tokens; ts.EachToken(...)
CallTokens ==
    /\ pc = "idle"
    /\ pc' = "walk"
    /\ op' = "Tokens"
    /\ stack' = <<Frame(tree)>>
    /\ tokens' = << >>
    /\ sink' = NewSink
    /\ result' = NoResult
    /\ UNCHANGED <<tree, heap, cur, spacesBefore, n, err, prior, given, chainVars>>

\* ts.WriteTo(wr) is called with a new sink: var n int; var err error; ts.EachToken(...)
CallWriteTo ==
    /\ pc = "idle"
    /\ pc' = "walk"
    /\ op' = "WriteTo"
    /\ stack' = <<Frame(tree)>>
    /\ n' = 0
    /\ err' = Nil
    /\ sink' = NewSink
    /\ result' = NoResult
    /\ UNCHANGED <<tree, heap, cur, spacesBefore, tokens, prior, given, chainVars>>

\* (*TokenSeq).EachToken: gen.EachToken(cb) for the next child.
EnterChild ==
    /\ pc = "walk"
    /\ stack # << >>
    /\ SeqHasNext(Top)
    /\ stack' = Append(Advance(stack), Frame(Top.gen.gens[Top.i]))
    /\ UNCHANGED <<tree, heap, pc, op, cur, spacesBefore, tokens, n, err, sink, result, prior, given, chainVars>>

\* An EachToken call returns: its loop is over, or its receiver is nil.
LeaveGen ==
    /\ pc = "walk"
    /\ stack # << >>
    /\ ~SeqHasNext(Top)
    /\ ~TokHasNext(Top)
    /\ stack' = Pop(stack)
    /\ UNCHANGED <<tree, heap, pc, op, cur, spacesBefore, tokens, n, err, sink, result, prior, given, chainVars>>

\* cb(t) under Tokens(): the token is appended.
VisitAppend ==
    /\ pc = "walk"
    /\ op = "Tokens"
    /\ stack # << >>
    /\ TokHasNext(Top)
    /\ tokens' = AppendTok(tokens, TokOf(Top))
    /\ stack' = Advance(stack)
    /\ UNCHANGED <<tree, heap, pc, op, cur, spacesBefore, n, err, sink, result, prior, given, chainVars>>

\* cb(t) under WriteTo after a failure: the callback returns at once.
VisitSkip ==
    /\ pc = "walk"
    /\ op = "WriteTo"
    /\ stack # << >>
    /\ TokHasNext(Top)
    /\ SkipToken(err)
    /\ stack' = Advance(stack)
    /\ UNCHANGED <<tree, heap, pc, op, cur, spacesBefore, tokens, n, err, sink, result, prior, given, chainVars>>

\* cb(t) under WriteTo: spacesBefore := token.SpacesBefore
VisitWrite ==
    /\ pc = "walk"
    /\ op = "WriteTo"
    /\ stack # << >>
    /\ TokHasNext(Top)
    /\ ~SkipToken(err)
    /\ cur' = TokOf(Top)
    /\ spacesBefore' = heap[TokOf(Top)].SpacesBefore
    /\ stack' = Advance(stack)
    /\ pc' = "spaces"
    /\ UNCHANGED <<tree, heap, op, tokens, n, err, sink, result, prior, given, chainVars>>

\* A loop that counts down in token.SpacesBefore itself.
WriteSpacesInPlace ==
    /\ pc = "spaces"
    /\ LoopRuns(spacesBefore)
    /\ \E out \in WriteOutcomes(SpaceChunk(spacesBefore)) :
        /\ sink' = SinkWrite(sink, SpaceChunk(spacesBefore), out)
        /\ n' = AddCount(n, out.n)
        /\ err' = out.err
        /\ IF out.err # Nil
           THEN pc' = "walk" /\ spacesBefore' = 0 /\ cur' = 0
           ELSE pc' = "spaces" /\ spacesBefore' = LoopDecrement(spacesBefore) /\ cur' = cur
    /\ heap' = [heap EXCEPT ![cur].SpacesBefore = LoopDecrement(spacesBefore)]
    /\ UNCHANGED <<tree, op, stack, tokens, result, prior, given, chainVars>>

\* One turn of the loop: thisN, err = wr.Write(spaces[:thisChunk]); n += thisN;
\* if err != nil { return }
WriteSpaces ==
    /\ pc = "spaces"
    /\ LoopRuns(spacesBefore)
    /\ \E out \in WriteOutcomes(SpaceChunk(spacesBefore)) :
        /\ sink' = SinkWrite(sink, SpaceChunk(spacesBefore), out)
        /\ n' = AddCount(n, out.n)
        /\ err' = out.err
        /\ IF out.err # Nil
           THEN pc' = "walk" /\ spacesBefore' = 0 /\ cur' = 0
           ELSE pc' = "spaces" /\ spacesBefore' = LoopDecrement(spacesBefore) /\ cur' = cur
    /\ UNCHANGED <<tree, heap, op, stack, tokens, result, prior, given, chainVars>>

\* After the loop: thisN, err = wr.Write(token.Bytes); n += thisN
WriteBytes ==
    /\ pc = "spaces"
    /\ ~LoopRuns(spacesBefore)
    /\ \E out \in WriteOutcomes(heap[cur].Bytes) :
        /\ sink' = SinkWrite(sink, heap[cur].Bytes, out)
        /\ n' = AddCount(n, out.n)
        /\ err' = out.err
    /\ pc' = "walk"
    /\ spacesBefore' = 0
    /\ cur' = 0
    /\ UNCHANGED <<tree, heap, op, stack, tokens, result, prior, given, chainVars>>

\* return tokens
ReturnTokens ==
    /\ pc = "walk"
    /\ op = "Tokens"
    /\ stack = << >>
    /\ result' = [op |-> "Tokens", tokens |-> tokens, n |-> 0, err |-> Nil]
    /\ pc' = "idle"
    /\ op' = "none"
    /\ tokens' = << >>
    /\ UNCHANGED <<tree, heap, stack, cur, spacesBefore, n, err, sink, prior, given, chainVars>>

\* return n, err
ReturnWriteTo ==
    /\ pc = "walk"
    /\ op = "WriteTo"
    /\ stack = << >>
    /\ result' = [op |-> "WriteTo", tokens |-> << >>, n |-> n, err |-> err]
    /\ prior' = IF err # Nil THEN "failed" ELSE prior
    /\ pc' = "idle"
    /\ op' = "none"
    /\ n' = 0
    /\ err' = Nil
    /\ UNCHANGED <<tree, heap, stack, cur, spacesBefore, tokens, sink, given, chainVars>>

Next ==
    \/ CallTokens
    \/ CallWriteTo
    \/ EnterChild
    \/ LeaveGen
    \/ VisitAppend
    \/ VisitSkip
    \/ VisitWrite
    \/ WriteSpaces
    \/ WriteBytes
    \/ ReturnTokens
    \/ ReturnWriteTo

Spec == Init /\ [][Next]_vars

----------------------------------------------------------------------------
\* The transform package's operations.

\* No token tree is in use.
TokIdle ==
    /\ tree = NilTokenSeq
    /\ given = [tree |-> NilTokenSeq, heap |-> TokenHeap]
    /\ heap = TokenHeap
    /\ pc = "idle"
    /\ op = "none"
    /\ stack = << >>
    /\ cur = 0
    /\ spacesBefore = 0
    /\ tokens = << >>
    /\ n = 0
    /\ err = Nil
    /\ sink = NewSink
    /\ result = NoResult
    /\ prior = "none"

ChainInit ==
    /\ TokIdle
    /\ \E l \in Lists :
        /\ arrays = <<l>>
        /\ list = [arr |-> 1, len |-> Len(l)]
    /\ chain = NoSlice
    /\ ctorList = << >>
    /\ cpc = "new"
    /\ idx = 0
    /\ body = NoBody
    /\ applied = << >>
    /\ callList = << >>
    /\ input = NoBody
    /\ cresult = NoBody

\* The caller builds the chain: Chain(list).
CallChain ==
    /\ cpc = "new"
    /\ chain' = Chain(list)
    /\ ctorList' = Elems(list)
    /\ cpc' = "idle"
    /\ UNCHANGED <<arrays, list, idx, body, applied, callList, input, cresult, tokVars>>

\* The caller assigns to an element of the slice it handed to Chain: list[i] = t.
Overwrite ==
    /\ cpc = "idle"
    /\ \E i \in 1..list.len, t \in Transformers :
        arrays' = [arrays EXCEPT ![list.arr][i] = t]
    /\ UNCHANGED <<list, chain, ctorList, cpc, idx, body, applied, callList, input, cresult, tokVars>>

\* The caller is done with the body a call returned.
Discard ==
    /\ cpc = "returned"
    /\ cpc' = "idle"
    /\ applied' = << >>
    /\ callList' = << >>
    /\ input' = NoBody
    /\ cresult' = NoBody
    /\ UNCHANGED <<arrays, list, chain, ctorList, idx, body, tokVars>>

\* chain.TransformBody(in) is called.
CallTransformBody ==
    /\ cpc \in {"idle", "returned"}
    /\ \E in \in InputBodies :
        /\ body' = in
        /\ input' = in
    /\ idx' = 1
    /\ applied' = << >>
    /\ callList' = Elems(list)
    /\ cresult' = NoBody
    /\ cpc' = "loop"
    /\ UNCHANGED <<arrays, list, chain, ctorList, tokVars>>

\* One turn of the loop: body = t.TransformBody(body)
ApplyStage ==
    /\ cpc = "loop"
    /\ RangeHasNext(chain, idx)
    /\ body' = TransformerFunc(RangeElem(chain, idx), body)
    /\ applied' = Append(applied, RangeElem(chain, idx))
    /\ idx' = idx + 1
    /\ UNCHANGED <<arrays, list, chain, ctorList, cpc, callList, input, cresult, tokVars>>

\* return body
ReturnBody ==
    /\ cpc = "loop"
    /\ ~RangeHasNext(chain, idx)
    /\ cresult' = body
    /\ body' = NoBody
    /\ idx' = 0
    /\ cpc' = "returned"
    /\ UNCHANGED <<arrays, list, chain, ctorList, applied, callList, input, tokVars>>

ChainNext ==
    \/ CallChain
    \/ Overwrite
    \/ Discard
    \/ CallTransformBody
    \/ ApplyStage
    \/ ReturnBody

ChainSpec == ChainInit /\ [][ChainNext]_vars

----------------------------------------------------------------------------
\* What the operations are to deliver, defined on the tree itself.

RECURSIVE ConcatAll(_)
ConcatAll(ss) == IF ss = << >> THEN << >> ELSE Head(ss) \o ConcatAll(Tail(ss))

RECURSIVE Flatten(_)
\* The tokens of a generator in depth-first pre-order.
Flatten(g) ==
    CASE g.kind = "Token"       -> <<g.tok>>
      [] g.kind = "Tokens"      -> g.toks
      [] g.kind = "NilTokenSeq" -> << >>
      [] g.kind = "TokenSeq"    -> ConcatAll([i \in 1..Len(g.gens) |-> Flatten(g.gens[i])])

SpacesRun(k) == [i \in 1..k |-> SpaceByte]

\* The bytes of the tokens ts of the heap h: each token's spaces, then its bytes.
Serialize(ts, h) ==
    ConcatAll([i \in 1..Len(ts) |-> SpacesRun(h[ts[i]].SpacesBefore) \o h[ts[i]].Bytes])

RECURSIVE SumOf(_)
SumOf(ks) == IF ks = << >> THEN 0 ELSE Head(ks) + SumOf(Tail(ks))

\* The length of the serialization, counted token by token.
SerializedLen(ts, h) ==
    SumOf([i \in 1..Len(ts) |-> h[ts[i]].SpacesBefore + Len(h[ts[i]].Bytes)])

CeilDiv(a, b) == (a + b - 1) \div b

\* k spaces in ceil(k / ScratchLen) slices, all but the last of ScratchLen.
SpaceChunks(k) ==
    [j \in 1..CeilDiv(k, ScratchLen) |->
        SpacesRun(IF j < CeilDiv(k, ScratchLen) THEN ScratchLen ELSE k - ScratchLen * (j - 1))]

\* The writes of the tokens ts: each token's space slices, then one write of its bytes.
ExpectedWrites(ts, h) ==
    ConcatAll([i \in 1..Len(ts) |-> Append(SpaceChunks(h[ts[i]].SpacesBefore), h[ts[i]].Bytes)])

InsertAt(s, i, e) == SubSeq(s, 1, i - 1) \o <<e>> \o SubSeq(s, i, Len(s))

RECURSIVE Insertions(_, _)
\* The generators got from g by inserting e as a child of one of its TokenSeqs,
\* at any position and any depth.
Insertions(g, e) ==
    IF g.kind # "TokenSeq" THEN {}
    ELSE { MkTokenSeq(InsertAt(g.gens, i, e)) : i \in 1..(Len(g.gens) + 1) }
         \cup UNION { { MkTokenSeq([g.gens EXCEPT ![j] = c]) : c \in Insertions(g.gens[j], e) }
                      : j \in 1..Len(g.gens) }

\* tn(...t2(t1(b))...)
RECURSIVE Compose(_, _)
Compose(l, b) ==
    IF l = << >> THEN b
    ELSE TransformerFunc(l[Len(l)], Compose(SubSeq(l, 1, Len(l) - 1), b))

TokensReturned == pc = "idle" /\ result.op = "Tokens"

WriteToReturned == pc = "idle" /\ result.op = "WriteTo"

\* The sink took every write in full and never failed.
SinkTookAll == sink.fails = << >> /\ ~sink.short

----------------------------------------------------------------------------
\* C1: the list Tokens() returns is the concatenation, in child order, of what
\* EachToken delivers for each child, and that is every token of the tree
\* once, in depth-first pre-order.
TokensIsConcatOfChildren ==
    TokensReturned =>
        /\ result.tokens = Flatten(tree)
        /\ tree.kind = "TokenSeq" =>
            result.tokens = ConcatAll([i \in 1..Len(tree.gens) |-> EachTokenOf(tree.gens[i])])

\* Tokens() has returned for a tree that mixes a nested sequence with tokens.
TokensOfMixedTree ==
    /\ TokensReturned
    /\ tree.kind = "TokenSeq"
    /\ \E i, j \in 1..Len(tree.gens) :
        /\ tree.gens[i].kind = "TokenSeq"
        /\ tree.gens[i].gens # << >>
        /\ tree.gens[j].kind \in {"Token", "Tokens"}
    /\ Len(result.tokens) >= 2

\* C2: with a sink that takes every write in full, the sink holds each
\* token's spaces followed by its bytes, token after token; WriteTo returns
\* the length of that and no error.
WriteToDeliversSerialization ==
    (WriteToReturned /\ SinkTookAll) =>
        /\ sink.data = Serialize(Flatten(tree), TokenHeap)
        /\ result.n = Len(Serialize(Flatten(tree), TokenHeap))
        /\ result.err = Nil

\* WriteTo has written a token of 120 spaces and a token of 40 spaces and no bytes.
WroteLongRuns ==
    /\ WriteToReturned
    /\ SinkTookAll
    /\ Flatten(tree) = <<7, 4>>
    /\ Len(sink.data) = 161

\* C3: a failed write is the last write of its WriteTo, and its error is the
\* error WriteTo returns.
NoWriteAfterFailure ==
    sink.fails # << >> =>
        /\ Len(sink.fails) = 1
        /\ sink.fails[1].at = Len(sink.log)
        /\ WriteToReturned => result.err = sink.fails[1].err

\* WriteTo has returned after the first of a token's three space writes
\* failed, with another token behind it.
FailedInFirstChunk ==
    /\ WriteToReturned
    /\ Flatten(tree) = <<7, 5>>
    /\ sink.fails # << >>
    /\ sink.fails[1].at = 1
    /\ result.err = "ErrShort"

\* C4: the count WriteTo returns is the sum of the counts its writes
\* returned, the failing one's included.
CountIsSumOfWrites ==
    WriteToReturned => result.n = Len(sink.data)

\* WriteTo has failed in the second token's bytes, the failing write having
\* taken one byte.
FailedInSecondToken ==
    /\ WriteToReturned
    /\ Flatten(tree) = <<3, 5>>
    /\ result.err = "ErrShort"
    /\ Len(sink.log) = 5
    /\ result.n = 40 + 41 + 1

\* C5: what a chain returns is tn(...t2(t1(body))...) for the list t1..tn it
\* was called with, every stage called once per occurrence and in list
\* order; the empty chain returns its input.
ChainAppliesInOrder ==
    cpc = "returned" =>
        /\ cresult = Compose(callList, input)
        /\ applied = callList
        /\ callList = << >> => cresult = input

\* A chain with a failing stage and the same stage twice after it has returned.
ChainRanPastPoison ==
    /\ cpc = "returned"
    /\ callList = <<"Err", "A", "A">>
    /\ cresult = Body(<<"A", "A">>, TRUE)

\* C6: the stages of a chain are the contents of the list when Chain was called.
ChainIsImmutable ==
    cpc # "new" => Elems(chain) = ctorList

\* C7: the empty sequence and a nil TokenSeq deliver no token, and the tokens
\* of a tree are those of the tree with either one inserted as a child
\* anywhere.
EmptyChildChangesNothing ==
    TokensReturned =>
        /\ EachTokenOf(TokenSeqEmpty) = << >>
        /\ EachTokenOf(NilTokenSeq) = << >>
        /\ tree \in {TokenSeqEmpty, NilTokenSeq} => result.tokens = << >>
        /\ \A e \in {TokenSeqEmpty, NilTokenSeq} :
            \A t \in Insertions(tree, e) : EachTokenOf(t) = result.tokens

\* Tokens() has returned tokens from both sides of an empty child.
TokensAroundEmptyChild ==
    /\ TokensReturned
    /\ tree.kind = "TokenSeq"
    /\ Len(tree.gens) = 3
    /\ tree.gens[2] \in {TokenSeqEmpty, NilTokenSeq}
    /\ result.tokens = <<1, 2>>

\* C8: the tree and its tokens stay as they were handed over, and a WriteTo
\* after a failed one delivers the whole serialization to a sink that takes
\* everything.
TreeIsReadOnly ==
    /\ tree = given.tree
    /\ heap = given.heap
    /\ (WriteToReturned /\ prior = "failed" /\ SinkTookAll) =>
        sink.data = Serialize(EachTokenOf(given.tree), given.heap)

\* A WriteTo has delivered spaces and bytes after an earlier one failed.
RetriedAfterFailure ==
    /\ WriteToReturned
    /\ prior = "failed"
    /\ result.err = Nil
    /\ SinkTookAll
    /\ Len(sink.data) > ScratchLen

\* C9: with no failure, the writes of a token are ceil(k / 40) writes of
\* spaces, all of 40 but the last, none empty, and then one write of its bytes.
SpacesGoOutInChunks ==
    (WriteToReturned /\ sink.fails = << >>) =>
        sink.log = ExpectedWrites(Flatten(tree), TokenHeap)

\* WriteTo has written a token of 41 spaces and a token of 40.
WroteAcrossBuffer ==
    /\ WriteToReturned
    /\ sink.fails = << >>
    /\ Flatten(tree) = <<5, 4>>
    /\ Len(sink.log) = 5

\* C10, as stated: a WriteTo that returns no error has returned the length
\* of the serialization, and the sink has taken all of it.
NoErrorMeansComplete ==
    (WriteToReturned /\ result.err = Nil) =>
        /\ result.n = SerializedLen(Flatten(tree), TokenHeap)
        /\ Len(sink.data) = SerializedLen(Flatten(tree), TokenHeap)

\* C10, amended: that holds when the sink never reports a short count
\* without an error.
NoErrorMeansCompleteForHonestSink ==
    (WriteToReturned /\ result.err = Nil /\ ~sink.short) =>
        /\ result.n = SerializedLen(Flatten(tree), TokenHeap)
        /\ Len(sink.data) = SerializedLen(Flatten(tree), TokenHeap)

\* WriteTo has returned no error from a sink that reported no short count.
HonestSinkReturnedNoError ==
    /\ WriteToReturned
    /\ result.err = Nil
    /\ ~sink.short
    /\ result.n > 2 * ScratchLen

====
